---- MODULE Spec2Model ----
(***************************************************************************)
(* Happy Thoughts API: the thought store and the request handlers of the   *)
(* two thoughts routers of the repository.                                 *)
(*   "legacy"  : routes/thoughts.js      (mounted by src/server.js and     *)
(*               imported by the test suites)                              *)
(*   "current" : src/routes/thoughts.js  (mounted by src/app.js)           *)
(* A handler suspends at every await on the persistence layer, so each     *)
(* handler is one action per database round trip; the database applies a   *)
(* single find / findByIdAndUpdate / findByIdAndDelete atomically.         *)
(***************************************************************************)
EXTENDS Integers, Sequences, FiniteSets, TLC

\* ------------------------------------------------------------------ bounds
\* Number of requests the clients send in one behaviour.
MaxOps == 4

\* Number of thoughts a store holds when the clients start to list it.
MaxThoughts == 3

\* ------------------------------------------------------------- input sets
\* Registered users (the hex of their _id).
Users == {"u1", "u2"}
\* Request handlers that can be suspended at an await at the same time.
Reqs == {1, 2}
\* The routers of the repository.
Routers == {"legacy", "current"}
\* Ids the store may assign; 0 stands for a string that is no ObjectId.
ThoughtIds == {1, 2}
IdInputs == {0} \cup ThoughtIds
\* Callers: a registered user carrying a valid token, or no token at all.
NoToken == "none"
Callers == Users \cup {NoToken}
\* Other credentials a request may carry: a token with a bad signature, an
\* expired token, and a well-signed token that names a user who is not stored.
Forged == "forged"
Expired == "expired"
Ghost == "u0"
Credentials == Callers \cup {Forged, Expired, Ghost}
\* Client addresses (req.ip); clients post from ClientIp unless said otherwise.
Ips == {"ip1", "ip2"}
ClientIp == "ip1"
\* Owner of an anonymous thought.
Null == "null"
\* Values of the query parameter allowAnonymous; Undefined when it is absent.
Undefined == "undefined"
AnonymousFlags == {"true", "1", Undefined}

\* ------------------------------------------------------------- messages
\* A message is a sequence of characters.
Spaces(n) == [i \in 1..n |-> " "]
Letters(n, ch) == [i \in 1..n |-> ch]
Msg(lead, n, ch, trail) == Spaces(lead) \o Letters(n, ch) \o Spaces(trail)

RECURSIVE TrimStart(_)
TrimStart(s) == IF s # <<>> /\ Head(s) = " " THEN TrimStart(Tail(s)) ELSE s

RECURSIVE TrimEnd(_)
TrimEnd(s) ==
  IF s # <<>> /\ s[Len(s)] = " " THEN TrimEnd(SubSeq(s, 1, Len(s) - 1)) ELSE s

\* String.prototype.trim
Trim(s) == TrimEnd(TrimStart(s))

\* !message || message.trim().length === 0
MessageMissing(m) == m = <<>> \/ Len(Trim(m)) = 0

MinMessageLength == 5
MaxMessageLength == 140

\* thoughtValidation: the body's message has 5..140 characters after trimming.
thoughtValidation(m) ==
  Len(Trim(m)) >= MinMessageLength /\ Len(Trim(m)) <= MaxMessageLength

\* Message bodies the clients send: to POST /thoughts and to PUT /thoughts/:id.
CreateMessages == { Msg(0, 4, "a", 1), Msg(1, 5, "a", 1) }
PutMessages == { Msg(2, 0, "b", 0), Msg(1, 5, "b", 2) }

\* Messages at the bounds of the length: 4, 5, 140 and 141 characters between
\* the blanks.
BoundaryMessages(ch) ==
  { Msg(1, MinMessageLength - 1, ch, 0), Msg(0, MinMessageLength, ch, 1),
    Msg(1, MaxMessageLength, ch, 0), Msg(0, MaxMessageLength + 1, ch, 1) }

\* Clients post in the default category.
Categories == {"General"}

\* ------------------------------------------------------------ identifiers
\* A value is an ObjectId or a string; both carry the same 24 hex digits.
ObjectId(h) == [kind |-> "ObjectId", hex |-> h]
Str(h) == [kind |-> "string", hex |-> h]

\* ObjectId.prototype.toString / String.prototype.toString
toString(v) == Str(v.hex)

\* a !== b. An ObjectId is an object: it is never identical to a string, nor to
\* another ObjectId instance (the two operands always come from two documents).
StrictNotEqual(a, b) ==
  IF a.kind = "ObjectId" \/ b.kind = "ObjectId" THEN TRUE ELSE a.hex # b.hex

\* ------------------------------------------------------------------ users
\* Bodies the clients send to the auth routes.
Emails == {"a@x.io", "b@x.io"}
MinPasswordLength == 6
Passwords == {Letters(6, "p"), Letters(6, "q"), Letters(5, "p")}
Names == {"Ann", "Bob"}

\* bcrypt.hash(password, saltRounds): the stored value is not the password.
Hash(p) == <<"$2b$12$">> \o p

\* userSchema.methods.comparePassword: bcrypt.compare(candidate, this.password)
comparePassword(doc, candidate) == Hash(candidate) = doc.password

\* Mutant of toJSON: the object is returned as toObject() built it.
toObject(doc) == doc

\* userSchema.methods.toJSON: toObject() without the password.
toJSON(doc) == [f \in DOMAIN doc \ {"password"} |-> doc[f]]

\* generateToken(userId): a signed token that names the user.
generateToken(userId) == userId

\* Mutant of toLowerCase: the email is kept as it was sent.
KeepCase(email) == email

\* lowercase: true on userSchema.email: String.prototype.toLowerCase, on the
\* emails the clients send.
toLowerCase(email) == IF email = "A@x.io" THEN "a@x.io" ELSE email

\* A user document as save() stores it (setters: the email is lower-cased;
\* pre-save hook: the password is hashed).
UserDoc(id, email, password, name) ==
  [_id |-> id, email |-> toLowerCase(email), password |-> Hash(password),
   name |-> name]

\* The users of a store in which both ids are registered.
RegisteredUsers ==
  [u \in Users |->
     IF u = "u1" THEN UserDoc("u1", "a@x.io", Letters(6, "p"), "Ann")
                 ELSE UserDoc("u2", "b@x.io", Letters(6, "q"), "Bob")]

\* ------------------------------------------------------------------ state
VARIABLES
  router,    \* the router the process mounts
  thoughts,  \* the thoughts collection: stored id -> document
  nextId,    \* number of ids the collection has assigned
  req,       \* per handler slot: the suspended handler's locals
  resp,      \* the response sent last
  ops,       \* requests received so far
  lastLike,  \* history: the like-toggle applied last, with the state before it
  users,     \* the users collection: stored _id -> document
  authReq,   \* per handler slot: the locals of a suspended signup handler
  authResp,  \* the response the auth routes sent last
  listReq,   \* the locals of the suspended GET /thoughts handler
  listResp,  \* the response GET /thoughts sent last
  likesReq,  \* the locals of the suspended GET /users/me/likes handler
  likesResp, \* the response GET /users/me/likes sent last
  thoughtsHelper, \* in-memory variant: the thoughtsHelper module it imports
  thoughtsData,   \* in-memory variant: the dataset cached by dataService
  memResp,        \* in-memory variant: the response GET /thoughts sent last
  hits,      \* thoughtCreationRateLimit: requests counted per IP in the window
  passed     \* history: POST /thoughts let through per IP in the window

authVars == <<users, authReq, authResp>>
likesVars == <<likesReq, likesResp>>
memVars == <<thoughtsHelper, thoughtsData, memResp>>
listVars == <<listReq, listResp, likesVars, memVars>>
rateVars == <<hits, passed>>
vars == <<router, thoughts, nextId, req, resp, ops, lastLike, authVars,
          listVars, rateVars>>

\* A response without user object, a request without req.user.
NoUser == [_id |-> Null]
NoIdentity == [userId |-> Null]

Idle == [op |-> "idle", user |-> NoToken, id |-> 0, hasLiked |-> FALSE,
         message |-> <<>>]
NoResp == [op |-> "none", user |-> NoToken, id |-> 0, message |-> <<>>,
           status |-> 0, body |-> "none", allowAnonymous |-> Undefined,
           owner |-> NoUser]
NoLike == [id |-> 0, user |-> NoToken, likers |-> {}, hearts |-> 0,
           twice |-> FALSE]

AuthIdle == [op |-> "idle", email |-> "", password |-> <<>>, name |-> ""]
NoAuthResp == [op |-> "none", cred |-> NoToken, email |-> "", password |-> <<>>,
               status |-> 0, error |-> "", details |-> "", user |-> NoUser,
               accessToken |-> Null, identity |-> NoIdentity]

NoPagination == [currentPage |-> 0, totalPages |-> 0, totalCount |-> 0,
                 hasNextPage |-> FALSE, hasPrevPage |-> FALSE]
ListIdle == [op |-> "idle", page |-> <<>>, limit |-> <<>>, minHearts |-> <<>>,
             sort |-> <<>>,
             found |-> <<>>, snapshot |-> <<>>]
NoListResp == [status |-> 0, page |-> <<>>, limit |-> <<>>, minHearts |-> <<>>,
               sort |-> <<>>,
               thoughts |-> <<>>, pagination |-> NoPagination,
               quiet |-> FALSE, matching |-> 0]
LikesIdle == [op |-> "idle", user |-> NoToken, page |-> <<>>, limit |-> <<>>,
              found |-> <<>>, snapshot |-> <<>>]
NoLikesResp == [status |-> 0, user |-> NoToken, page |-> <<>>, limit |-> <<>>,
                skip |-> 0, limitNum |-> 0, likedThoughts |-> <<>>,
                pagination |-> NoPagination, quiet |-> FALSE]

\* data/thoughts.json as loadThoughtsData parses it: an array of thoughts.
Dataset ==
  << [_id |-> 1, message |-> 2, hearts |-> 2, category |-> "Food",
      createdAt |-> 3],
     [_id |-> 2, message |-> 3, hearts |-> 0, category |-> "Travel",
      createdAt |-> 2],
     [_id |-> 3, message |-> 1, hearts |-> 2, category |-> "Food",
      createdAt |-> 1] >>

\* The two versions of utils/thoughtsHelper.js.
Helpers == {"legacy", "current"}

NoMemResp == [status |-> 0, page |-> <<>>, limit |-> <<>>, category |-> "",
              sort |-> <<>>, thoughts |-> <<>>]

Stored(id) == id \in DOMAIN thoughts

Init ==
  /\ router \in Routers
  /\ thoughts = <<>>
  /\ nextId = 0
  /\ req = [r \in Reqs |-> Idle]
  /\ resp = NoResp
  /\ ops = 0
  /\ lastLike = NoLike
  /\ users = RegisteredUsers
  /\ authReq = [r \in Reqs |-> AuthIdle]
  /\ authResp = NoAuthResp
  /\ listReq = ListIdle
  /\ listResp = NoListResp
  /\ likesReq = LikesIdle
  /\ likesResp = NoLikesResp
  /\ thoughtsHelper = "current"
  /\ thoughtsData = Dataset
  /\ memResp = NoMemResp
  /\ hits = [ip \in Ips |-> 0]
  /\ passed = [ip \in Ips |-> 0]

\* Mutant of Populate: populate('owner') without a field selection.
PopulateWhole(ownerId) ==
  IF ownerId \in DOMAIN users THEN users[ownerId] ELSE NoUser

\* .populate('owner', 'name email'): the owner's document reduced to the
\* selected fields and _id; null when the thought has no owner or the owner is
\* not stored.
Populate(ownerId) ==
  IF ownerId \in DOMAIN users
    THEN [f \in {"_id", "name", "email"} |-> users[ownerId][f]]
    ELSE NoUser

\* res.status(status).json(body), kept with the request it answers. A body
\* that is a thought is the document as the store holds it after the step, its
\* owner populated.
RespondTo(op, caller, id, m, flag, status, body) ==
  resp' = [op |-> op, user |-> caller, id |-> id, message |-> m,
           status |-> status, body |-> body, allowAnonymous |-> flag,
           owner |-> IF body = "thought" THEN Populate(thoughts'[id].owner)
                                         ELSE NoUser]

\* The same for a request without the allowAnonymous parameter.
Respond(op, caller, id, m, status, body) ==
  RespondTo(op, caller, id, m, Undefined, status, body)

\* A request arrives (bounded number per behaviour).
Accept == ops < MaxOps /\ ops' = ops + 1

\* ---------------------------------------------------------- authentication
\* Mutant of jwtVerify: the expiry is not checked (ignoreExpiration).
jwtVerifyIgnoreExpiration(c) ==
  IF c = Forged THEN "JsonWebTokenError" ELSE "ok"

\* jwt.verify(token, jwtSecret): the error it throws, or "ok". The signature is
\* verified before the expiry.
jwtVerify(c) ==
  IF c = Forged THEN "JsonWebTokenError"
  ELSE IF c = Expired THEN "TokenExpiredError"
  ELSE "ok"

\* User.findById(userId): the user the token names is stored.
UserFound(c) == c \in DOMAIN users

\* The answer that lets the request go on to its handler.
CallNext == "next"

\* Mutant of authenticateToken: the error of jwt.verify is swallowed, and the
\* request goes on with the token's unverified payload.
AuthenticateUnverified(c) ==
  IF c = NoToken THEN "Access token is required" ELSE CallNext

\* authenticateToken: the details of its 401 answer, or CallNext when it has
\* attached req.user and called next().
authenticateToken(c) ==
  IF c = NoToken THEN "Access token is required"
  ELSE IF jwtVerify(c) = "JsonWebTokenError" THEN "Invalid access token"
  ELSE IF jwtVerify(c) = "TokenExpiredError" THEN "Access token has expired"
  ELSE IF ~UserFound(c) THEN "User not found"
  ELSE CallNext

Authenticated(c) == authenticateToken(c) = CallNext

\* A request answered with an error before its handler suspends.
Reject(op, caller, id, m, status) ==
  Accept /\ Respond(op, caller, id, m, status, "error") /\ UNCHANGED req

\* Handler invocations are interchangeable: a new one takes the first free slot.
\* The 401 answer of authenticateToken.
RejectUnauthorized(op, caller, id, m) ==
  Accept /\ Respond(op, caller, id, m, 401, authenticateToken(caller))
         /\ UNCHANGED req

FreeSlot(r) ==
  /\ req[r].op = "idle"
  /\ \A q \in Reqs : q < r => req[q].op # "idle"

\* --------------------------------------------------- persistence primitives
\* The users a likedBy array holds.
Likers(arr) == {arr[i] : i \in 1..Len(arr)}

\* Mutant of AddToSet: $push, which appends unconditionally.
Push(arr, u) == Append(arr, u)

\* $addToSet: append the value unless the array holds it already.
AddToSet(arr, u) == IF u \in Likers(arr) THEN arr ELSE Append(arr, u)

\* Mutant of Pull: the array is emptied.
PullAll(arr, u) == <<>>

\* $pull: remove every occurrence of the value.
Pull(arr, u) == SelectSeq(arr, LAMBDA x : x # u)

\* $inc
Inc(n, d) == n + d

\* MongooseArray.prototype.includes: indexOf turns an ObjectId argument into its
\* string and compares it loosely (==) with every element.
MongooseIncludes(arr, v) == \E i \in 1..Len(arr) : arr[i] = v.hex

\* a === b
StrictEqual(a, b) == ~StrictNotEqual(a, b)

\* ------------------------------------------------------------ like toggle
\* Mutant of HasLiked: the membership test never finds the user.
HasLikedNever(doc, userId) == FALSE

\* legacy:  thought.likedBy.includes(userId)
\* current: thought.likedBy.some(id => id.toString() === userId.toString())
HasLiked(doc, userId) ==
  IF router = "legacy"
    THEN MongooseIncludes(doc.likedBy, userId)
    ELSE \E i \in 1..Len(doc.likedBy) :
           StrictEqual(toString(ObjectId(doc.likedBy[i])), toString(userId))

\* Mutant of UnlikeOperation: the $inc is forgotten.
UnlikeWithoutInc(doc, userId) ==
  [doc EXCEPT !.likedBy = Pull(@, userId.hex)]

\* { $pull: { likedBy: userId }, $inc: { hearts: -1 } }
UnlikeOperation(doc, userId) ==
  [doc EXCEPT !.likedBy = Pull(@, userId.hex), !.hearts = Inc(@, -1)]

\* Mutant of LikeOperation: the array is written back whole ($set), losing
\* what other requests added.
LikeOverwrite(doc, userId) ==
  [doc EXCEPT !.likedBy = <<userId.hex>>, !.hearts = Inc(@, 1)]

\* { $addToSet: { likedBy: userId }, $inc: { hearts: 1 } }
LikeOperation(doc, userId) ==
  [doc EXCEPT !.likedBy = AddToSet(@, userId.hex), !.hearts = Inc(@, 1)]

\* The update document the handler builds from its (possibly stale) hasLiked.
UpdateOperation(hasLiked, doc, userId) ==
  IF hasLiked THEN UnlikeOperation(doc, userId) ELSE LikeOperation(doc, userId)

\* POST /thoughts/:id/like up to its first await: authenticateToken,
\* validateThoughtId, Thought.findById, the 404 answer, hasLiked.
LikeLookup(r, caller, id) ==
  /\ FreeSlot(r)
  /\ UNCHANGED <<authVars, rateVars, listVars, router, thoughts, nextId, lastLike>>
  /\ IF ~Authenticated(caller) THEN
       RejectUnauthorized("like", caller, id, <<>>)
     ELSE IF id = 0 THEN
       \* findById rejects with CastError
       Reject("like", caller, id, <<>>, 400)
     ELSE IF ~Stored(id) THEN
       Reject("like", caller, id, <<>>, 404)
     ELSE
       /\ req' = [req EXCEPT ![r] =
            [op |-> "like", user |-> caller, id |-> id,
             hasLiked |-> HasLiked(thoughts[id], ObjectId(caller)),
             message |-> <<>>]]
       /\ Accept
       /\ UNCHANGED resp

\* The rest of the like handler: Thought.findByIdAndUpdate(id, updateOperation,
\* {new: true}) applied atomically by the store, then res.status(200).json(...).
\* findByIdAndUpdate resolves to null when no document has the id.
LikeApply(r) ==
  /\ req[r].op = "like"
  /\ LET id == req[r].id
         userId == ObjectId(req[r].user)
     IN IF Stored(id) THEN
          /\ thoughts' = [thoughts EXCEPT ![id] =
               UpdateOperation(req[r].hasLiked, @, userId)]
          /\ Respond("like", req[r].user, id, <<>>, 200, "thought")
        ELSE
          /\ UNCHANGED thoughts
          /\ Respond("like", req[r].user, id, <<>>, 200, "null")
  /\ req' = [req EXCEPT ![r] = Idle]
  /\ UNCHANGED <<authVars, rateVars, listVars, router, nextId, ops>>

LikeUpdate(r) == LikeApply(r) /\ UNCHANGED lastLike

\* The same step, with the history of the toggle recorded.
LikeUpdateRecorded(r) ==
  /\ LikeApply(r)
  /\ lastLike' =
       IF Stored(req[r].id)
         THEN [id |-> req[r].id, user |-> req[r].user,
               likers |-> Likers(thoughts[req[r].id].likedBy),
               hearts |-> thoughts[req[r].id].hearts,
               twice |-> lastLike.id = req[r].id /\ lastLike.user = req[r].user]
         ELSE lastLike

\* ------------------------------------------------------------- ownership
\* Mutant of checkOwnership: every caller passes.
CheckOwnershipAlways(doc, userId) == TRUE

\* current: checkOwnership(thought, userId)
checkOwnership(doc, userId) ==
  ~(doc.owner = Null
      \/ StrictNotEqual(toString(ObjectId(doc.owner)), toString(userId)))

\* legacy: !thought.owner || thought.owner.toString() !== userId, negated
LegacyIsOwner(doc, userId) ==
  ~(doc.owner = Null \/ StrictNotEqual(toString(ObjectId(doc.owner)), userId))

IsOwner(doc, userId) ==
  IF router = "legacy" THEN LegacyIsOwner(doc, userId)
                       ELSE checkOwnership(doc, userId)

\* legacy PUT reads thought.owner._id for its debug log before the check:
\* a TypeError when owner is null, answered 500 by the catch block.
PutOwnerReadThrows(doc) == router = "legacy" /\ doc.owner = Null

\* -------------------------------------------------------------- PUT /:id
\* Up to the handler's first await and the ownership check that follows it.
PutLookup(r, caller, id, m) ==
  /\ FreeSlot(r)
  /\ UNCHANGED <<authVars, rateVars, listVars, router, thoughts, nextId, lastLike>>
  /\ IF ~Authenticated(caller) THEN
       RejectUnauthorized("put", caller, id, m)
     ELSE IF MessageMissing(m) THEN
       Reject("put", caller, id, m, 400)
     ELSE IF id = 0 THEN
       Reject("put", caller, id, m, 400)
     ELSE IF ~Stored(id) THEN
       Reject("put", caller, id, m, 404)
     ELSE IF PutOwnerReadThrows(thoughts[id]) THEN
       Reject("put", caller, id, m, 500)
     ELSE IF ~IsOwner(thoughts[id], ObjectId(caller)) THEN
       Reject("put", caller, id, m, 403)
     ELSE
       /\ req' = [req EXCEPT ![r] =
            [op |-> "put", user |-> caller, id |-> id, hasLiked |-> FALSE,
             message |-> m]]
       /\ Accept
       /\ UNCHANGED resp

\* Mutant of PutOperation: the document is replaced by the update document, so
\* the fields the update does not name fall back to their defaults.
PutReplace(doc, m) ==
  [doc EXCEPT !.message = Trim(m), !.hearts = 0, !.likedBy = <<>>]

\* The update document { message: message.trim(), updatedAt: new Date() }: a
\* $set of the fields it names (timestamps are not part of the state).
PutOperation(doc, m) == [doc EXCEPT !.message = Trim(m)]

\* Thought.findByIdAndUpdate(id, {message: message.trim(), updatedAt}, {new: true})
PutUpdate(r) ==
  /\ req[r].op = "put"
  /\ LET id == req[r].id
     IN IF Stored(id) THEN
          /\ thoughts' = [thoughts EXCEPT ![id] = PutOperation(@, req[r].message)]
          /\ Respond("put", req[r].user, id, req[r].message, 200, "thought")
        ELSE
          /\ UNCHANGED thoughts
          /\ Respond("put", req[r].user, id, req[r].message, 200, "null")
  /\ req' = [req EXCEPT ![r] = Idle]
  /\ UNCHANGED <<authVars, rateVars, listVars, router, nextId, ops, lastLike>>

\* ----------------------------------------------------------- DELETE /:id
DeleteLookup(r, caller, id) ==
  /\ FreeSlot(r)
  /\ UNCHANGED <<authVars, rateVars, listVars, router, thoughts, nextId, lastLike>>
  /\ IF ~Authenticated(caller) THEN
       RejectUnauthorized("delete", caller, id, <<>>)
     ELSE IF id = 0 THEN
       Reject("delete", caller, id, <<>>, 400)
     ELSE IF ~Stored(id) THEN
       Reject("delete", caller, id, <<>>, 404)
     ELSE IF ~IsOwner(thoughts[id], ObjectId(caller)) THEN
       Reject("delete", caller, id, <<>>, 403)
     ELSE
       /\ req' = [req EXCEPT ![r] =
            [op |-> "delete", user |-> caller, id |-> id, hasLiked |-> FALSE,
             message |-> <<>>]]
       /\ Accept
       /\ UNCHANGED resp

\* Mutant of FindByIdAndDelete: deleteMany({}), which empties the collection.
DeleteAll(coll, id) == <<>>

\* Model.findByIdAndDelete(id): removes the document with that _id, if any.
FindByIdAndDelete(coll, id) == [i \in DOMAIN coll \ {id} |-> coll[i]]

\* Thought.findByIdAndDelete(id), then the 200 confirmation built from the
\* document read before.
DeleteApply(r) ==
  /\ req[r].op = "delete"
  /\ thoughts' = FindByIdAndDelete(thoughts, req[r].id)
  /\ Respond("delete", req[r].user, req[r].id, <<>>, 200, "deleted")
  /\ req' = [req EXCEPT ![r] = Idle]
  /\ UNCHANGED <<authVars, rateVars, listVars, router, nextId, ops, lastLike>>

\* -------------------------------------------------------------- GET /:id
\* validateThoughtId, Thought.findById(id).populate(...).exec(), then the answer
\* decided by what that one read returned. No token is needed.
GetThought(caller, id) ==
  /\ UNCHANGED <<authVars, rateVars, listVars, router, thoughts, nextId, lastLike>>
  /\ IF id = 0 THEN
       Reject("get", caller, id, <<>>, 400)
     ELSE IF ~Stored(id) THEN
       Reject("get", caller, id, <<>>, 404)
     ELSE
       /\ Accept
       /\ UNCHANGED req
       /\ Respond("get", caller, id, <<>>, 200, "thought")

\* ---------------------------------------------------------- POST /thoughts
\* Schema validators run by save(): the legacy schema bounds the trimmed
\* message (minlength 5, maxlength 140); the current schema does not.
SchemaAccepts(m) ==
  router = "legacy" =>
    (Len(Trim(m)) >= MinMessageLength /\ Len(Trim(m)) <= MaxMessageLength)

\* Mutant of AnonymousRequested: the flag is tested for truthiness.
AnonymousTruthy(flag) == flag # Undefined

\* allowAnonymous === 'true'
AnonymousRequested(flag) == flag = "true"

\* conditionalAuth: authenticateToken is run unless anonymous posting is
\* requested; TRUE when the request goes on to the handler.
conditionalAuth(caller, flag) ==
  IF AnonymousRequested(flag) THEN TRUE ELSE Authenticated(caller)

\* const owner = allowAnonymous === 'true' ? null : req.user.userId
Owner(caller, flag) == IF AnonymousRequested(flag) THEN Null ELSE caller

\* A POST /thoughts answered with an error.
RejectCreate(caller, m, flag, status) ==
  /\ Accept
  /\ RespondTo("create", caller, 0, m, flag, status,
               IF status = 401 THEN authenticateToken(caller) ELSE "error")
  /\ UNCHANGED <<req, thoughts, nextId>>

\* const skip = () => true
Skip(ip) == TRUE

\* max of thoughtCreationRateLimit: requests per IP and window
MaxCreations == 5

\* express-rate-limit with { max, skip, handler }: a request that skip names
\* is passed on uncounted; any other one is counted, and is handed to handler
\* (429) when its count exceeds max.
RateLimitCounts(ip) ==
  IF Skip(ip) THEN hits ELSE [hits EXCEPT ![ip] = @ + 1]
RateLimitRejects(ip) == ~Skip(ip) /\ hits[ip] + 1 > MaxCreations

\* POST /thoughts from a client address: thoughtCreationRateLimit,
\* thoughtValidation, conditionalAuth, then the handler: save and the 201
\* answer.
PostThought(ip, caller, flag, m, category) ==
  /\ UNCHANGED <<authVars, listVars, router, lastLike>>
  /\ hits' = RateLimitCounts(ip)
  /\ IF RateLimitRejects(ip) THEN
       RejectCreate(caller, m, flag, 429)
     ELSE IF ~thoughtValidation(m) THEN
       RejectCreate(caller, m, flag, 422)
     ELSE IF ~conditionalAuth(caller, flag) THEN
       RejectCreate(caller, m, flag, 401)
     ELSE IF MessageMissing(m) THEN
       RejectCreate(caller, m, flag, 400)
     ELSE IF ~SchemaAccepts(m) THEN
       RejectCreate(caller, m, flag, 422)
     ELSE
       /\ nextId + 1 \in ThoughtIds
       /\ Accept
       /\ UNCHANGED req
       /\ nextId' = nextId + 1
       /\ thoughts' = [i \in DOMAIN thoughts \cup {nextId + 1} |->
            IF i = nextId + 1
              THEN [message |-> Trim(m), category |-> category,
                    owner |-> Owner(caller, flag),
                    hearts |-> 0, likedBy |-> <<>>]
              ELSE thoughts[i]]
       /\ RespondTo("create", caller, nextId + 1, m, flag, 201, "thought")

CreateThought(caller, flag, m, category) ==
  PostThought(ClientIp, caller, flag, m, category) /\ UNCHANGED passed

\* The same route, with the history of the requests the limiter lets through.
PostThoughtCounted(ip, caller, flag, m, category) ==
  /\ PostThought(ip, caller, flag, m, category)
  /\ passed' = IF RateLimitRejects(ip) THEN passed
                                       ELSE [passed EXCEPT ![ip] = @ + 1]

\* The window of the limiter ends: its store forgets the counts.
WindowReset ==
  /\ \E ip \in Ips : hits[ip] # 0 \/ passed[ip] # 0
  /\ hits' = [ip \in Ips |-> 0]
  /\ passed' = [ip \in Ips |-> 0]
  /\ UNCHANGED <<authVars, listVars, router, thoughts, nextId, req, resp, ops,
                 lastLike>>

\* ------------------------------------------------------------------- Next
\* Every request but the like-toggle's first half.
OtherRequests ==
  \/ \E c \in Callers, a \in AnonymousFlags, m \in CreateMessages,
        g \in Categories :
       CreateThought(c, a, m, g)
  \/ \E r \in Reqs, c \in Callers, id \in IdInputs, m \in PutMessages :
       PutLookup(r, c, id, m)
  \/ \E r \in Reqs : PutUpdate(r)
  \/ \E r \in Reqs, c \in Callers, id \in IdInputs : DeleteLookup(r, c, id)
  \/ \E r \in Reqs : DeleteApply(r)

\* The server under arbitrary clients: any requests, overlapping at will.
Next ==
  \/ \E r \in Reqs, c \in Callers, id \in IdInputs : LikeLookup(r, c, id)
  \/ \E r \in Reqs : LikeUpdate(r)
  \/ OtherRequests
  \/ \E id \in IdInputs : GetThought(NoToken, id)

Spec == Init /\ [][Next]_vars

\* Clients that send the like-toggles one after another: a like-toggle arrives
\* only when no other like-toggle is suspended. The history of the toggles is
\* recorded.
LikeInFlight(q) == req[q].op = "like"

NextSeq ==
  \/ \E r \in Reqs, c \in Callers, id \in IdInputs :
       (\A q \in Reqs : ~LikeInFlight(q)) /\ LikeLookup(r, c, id)
  \/ \E r \in Reqs : LikeUpdateRecorded(r)
  \/ OtherRequests

SpecSeq == Init /\ [][NextSeq]_vars

\* Clients of which each user has at most one like-toggle in flight.
NextDistinct ==
  \/ \E r \in Reqs, c \in Callers, id \in IdInputs :
       /\ \A q \in Reqs : ~(LikeInFlight(q) /\ req[q].user = c)
       /\ LikeLookup(r, c, id)
  \/ \E r \in Reqs : LikeUpdate(r)
  \/ OtherRequests

SpecDistinct == Init /\ [][NextDistinct]_vars

\* Clients of which one user alone sends like-toggles, any number at once.
TheLiker == "u1"

NextSameUser ==
  \/ \E r \in Reqs, id \in IdInputs : LikeLookup(r, TheLiker, id)
  \/ \E r \in Reqs : LikeUpdate(r)
  \/ OtherRequests

SpecSameUser == Init /\ [][NextSameUser]_vars

\* Clients that present any credential. They post once at most and send their
\* like-toggles one after another.
NextAuth ==
  \/ \E c \in Credentials, a \in AnonymousFlags, m \in CreateMessages,
        g \in Categories :
       nextId = 0 /\ CreateThought(c, a, m, g)
  \/ \E r \in Reqs, c \in Credentials, id \in IdInputs, m \in PutMessages :
       PutLookup(r, c, id, m)
  \/ \E r \in Reqs : PutUpdate(r)
  \/ \E r \in Reqs, c \in Credentials, id \in IdInputs : DeleteLookup(r, c, id)
  \/ \E r \in Reqs : DeleteApply(r)
  \/ \E r \in Reqs, c \in Credentials, id \in IdInputs :
       (\A q \in Reqs : ~LikeInFlight(q)) /\ LikeLookup(r, c, id)
  \/ \E r \in Reqs : LikeUpdate(r)

SpecAuth == Init /\ [][NextAuth]_vars

\* ------------------------------------------------------------ GET /thoughts
\* A query parameter is a string of characters; the empty string stands for an
\* absent parameter too (both are falsy, and parseInt gives NaN for both).
Digits == <<"0", "1", "2", "3", "4", "5", "6", "7", "8", "9">>
IsDigit(ch) == \E d \in 1..10 : Digits[d] = ch
DigitValue(ch) == (CHOOSE d \in 1..10 : Digits[d] = ch) - 1

RECURSIVE ParseDigits(_, _)
ParseDigits(s, acc) ==
  IF s # <<>> /\ IsDigit(Head(s))
    THEN ParseDigits(Tail(s), 10 * acc + DigitValue(Head(s)))
    ELSE acc

\* parseInt(string): leading blanks are skipped, then an optional sign and the
\* longest run of digits is read; NaN when there is no digit.
parseInt(s) ==
  LET t == TrimStart(s)
      negative == t # <<>> /\ Head(t) = "-"
      u == IF t # <<>> /\ Head(t) \in {"-", "+"} THEN Tail(t) ELSE t
  IN IF u = <<>> \/ ~IsDigit(Head(u))
       THEN [isNaN |-> TRUE, value |-> 0]
       ELSE [isNaN |-> FALSE,
             value |-> IF negative THEN 0 - ParseDigits(u, 0)
                                   ELSE ParseDigits(u, 0)]

\* parseInt(x) || d
ParseIntOr(s, d) ==
  IF parseInt(s).isNaN \/ parseInt(s).value = 0 THEN d ELSE parseInt(s).value

MaxLimit == 100
DefaultLimit == 20

\* The sort parameter is a string too: a sequence whose elements are the
\* character "-" and, as one element, a run of other characters (a field name).
\* sort.startsWith('-') and the field that is left of it.
StartsWithDash(sort) == sort # <<>> /\ Head(sort) = "-"
SortFieldOf(sort) == IF StartsWithDash(sort) THEN Tail(sort) ELSE sort

\* validSortFields of validateThoughtsQuery
ValidSortFields == {"hearts", "createdAt", "_id", "message"}

\* Array.prototype.includes on a list of field names
Includes(fields, sortField) == \E f \in fields : sortField = <<f>>

\* validateThoughtsQuery: TRUE when the request goes on to the handler.
validateThoughtsQuery(page, limit, sort) ==
  /\ ~(sort # <<>> /\ ~Includes(ValidSortFields, SortFieldOf(sort)))
  /\ ~(page # <<>> /\ (parseInt(page).isNaN \/ parseInt(page).value < 1))
  /\ ~(limit # <<>> /\ (\/ parseInt(limit).isNaN
                        \/ parseInt(limit).value < 1
                        \/ parseInt(limit).value > MaxLimit))

\* buildFilterQuery (minHearts): the ids of the thoughts the query matches.
buildFilterQuery(coll, minHearts) ==
  IF minHearts # <<>> /\ ~parseInt(minHearts).isNaN
       /\ parseInt(minHearts).value >= 0
    THEN {i \in DOMAIN coll : coll[i].hearts >= parseInt(minHearts).value}
    ELSE DOMAIN coll

\* Mutant of calculatePagination: the first page skips one page.
calculatePaginationFromZero(page, limit) ==
  [pageNum |-> ParseIntOr(page, 1), limitNum |-> ParseIntOr(limit, DefaultLimit),
   skip |-> ParseIntOr(page, 1) * ParseIntOr(limit, DefaultLimit)]

\* calculatePagination
calculatePagination(page, limit) ==
  [pageNum |-> ParseIntOr(page, 1), limitNum |-> ParseIntOr(limit, DefaultLimit),
   skip |-> (ParseIntOr(page, 1) - 1) * ParseIntOr(limit, DefaultLimit)]

\* Math.ceil(a / b) for a >= 0 and b # 0 (a negative b gives a quotient that
\* is not positive; -0 and 0 are the same here).
MathCeil(a, b) ==
  IF b < 0 THEN 0 - (a \div (0 - b))
  ELSE IF a % b = 0 THEN a \div b ELSE (a \div b) + 1

\* createPaginationMetadata
createPaginationMetadata(pageNum, totalCount, limitNum) ==
  LET totalPages == MathCeil(totalCount, limitNum)
  IN [currentPage |-> pageNum, totalPages |-> totalPages,
      totalCount |-> totalCount, hasNextPage |-> pageNum < totalPages,
      hasPrevPage |-> pageNum > 1]

\* .sort({ createdAt: -1 }): newest first; ids are assigned in creation order.
RECURSIVE SortNewestFirst(_)
SortNewestFirst(ids) ==
  IF ids = {} THEN <<>>
  ELSE LET newest == CHOOSE i \in ids : \A j \in ids : j <= i
       IN <<newest>> \o SortNewestFirst(ids \ {newest})

\* ALLOWED_SORT_FIELDS
AllowedSortFields == {"createdAt", "updatedAt", "hearts", "category"}

\* { createdAt: -1 }
NewestFirst == [field |-> "createdAt", direction |-> 0 - 1]

\* Mutant of buildSortObject: the fallback is oldest first.
buildSortObjectOldestFirst(sort) ==
  IF sort = <<>> \/ ~Includes(AllowedSortFields, SortFieldOf(sort))
    THEN [field |-> "createdAt", direction |-> 1]
    ELSE [field |-> SortFieldOf(sort)[1],
          direction |-> IF StartsWithDash(sort) THEN 0 - 1 ELSE 1]

\* buildSortObject
buildSortObject(sort) ==
  IF sort = <<>> THEN NewestFirst
  ELSE IF ~Includes(AllowedSortFields, SortFieldOf(sort)) THEN NewestFirst
  ELSE [field |-> SortFieldOf(sort)[1],
        direction |-> IF StartsWithDash(sort) THEN 0 - 1 ELSE 1]

\* Categories in the order of their names.
CategoryOrder == <<"Food", "General", "Travel">>

\* The value a document is sorted by. Timestamps grow with the ids; updatedAt
\* is the creation time as long as the document has not been updated.
SortKey(coll, i, field) ==
  IF field = "hearts" THEN coll[i].hearts
  ELSE IF field = "category"
    THEN CHOOSE k \in 1..Len(CategoryOrder) : CategoryOrder[k] = coll[i].category
  ELSE i

\* .sort(sortObj): the orders of the matching documents the store may return,
\* which are all the orders that agree with the sort (documents with equal
\* values come in any order).
Sort(coll, ids, sortObj) ==
  {order \in [1..Cardinality(ids) -> ids] :
     /\ \A a, b \in 1..Cardinality(ids) : a # b => order[a] # order[b]
     /\ \A a, b \in 1..Cardinality(ids) :
          a < b => sortObj.direction * SortKey(coll, order[a], sortObj.field)
                     <= sortObj.direction * SortKey(coll, order[b], sortObj.field)}

\* .skip(skip).limit(limitNum)
SkipLimit(seq, skip, limitNum) ==
  [k \in 1..(IF Len(seq) - skip < 0 THEN 0
             ELSE IF Len(seq) - skip < limitNum THEN Len(seq) - skip
             ELSE limitNum) |-> seq[skip + k]]

\* GET /thoughts up to its first await: validateThoughtsQuery, then
\* Thought.find(query).sort(sortObj).skip(skip).limit(limitNum). listResp is
\* the answer to the latest request: none while that request is being served.
ListFind(page, limit, minHearts, sort) ==
  /\ listReq.op = "idle"
  /\ Accept
  /\ UNCHANGED <<authVars, rateVars, likesVars, memVars, router, thoughts, nextId, req,
                 resp, lastLike>>
  /\ IF ~validateThoughtsQuery(page, limit, sort) THEN
       /\ listResp' = [NoListResp EXCEPT !.status = 400, !.page = page,
                                         !.limit = limit,
                                         !.minHearts = minHearts,
                                         !.sort = sort]
       /\ UNCHANGED listReq
     ELSE
       /\ \E order \in Sort(thoughts, buildFilterQuery(thoughts, minHearts),
                             buildSortObject(sort)) :
            listReq' =
              [op |-> "list", page |-> page, limit |-> limit,
               minHearts |-> minHearts, sort |-> sort,
               found |-> SkipLimit(order,
                                   calculatePagination(page, limit).skip,
                                   calculatePagination(page, limit).limitNum),
               snapshot |-> thoughts]
       /\ listResp' = NoListResp

\* The rest of the handler: Thought.countDocuments(query), the pagination
\* metadata and the 200 answer. Recorded with it: whether the store is as the
\* find saw it, and the number of thoughts that match the query.
ListCount ==
  /\ listReq.op = "list"
  /\ UNCHANGED <<authVars, rateVars, likesVars, memVars, router, thoughts, nextId, req,
                 resp, lastLike, ops>>
  /\ listReq' = ListIdle
  /\ LET p == calculatePagination(listReq.page, listReq.limit)
         totalCount == Cardinality(buildFilterQuery(thoughts, listReq.minHearts))
     IN listResp' =
          [status |-> 200, page |-> listReq.page, limit |-> listReq.limit,
           minHearts |-> listReq.minHearts, sort |-> listReq.sort,
           thoughts |-> listReq.found,
           pagination |->
             createPaginationMetadata(p.pageNum, totalCount, p.limitNum),
           quiet |-> listReq.snapshot = thoughts,
           matching |-> totalCount]

\* ----------------------------------------------------- GET /users/me/likes
\* Mutant of LikedByQuery: { owner: userId }, the query of /me/thoughts.
OwnerQuery(coll, userId) == {i \in DOMAIN coll : coll[i].owner = userId.hex}

\* { likedBy: userId }: the ids of the thoughts whose likedBy holds the user.
LikedByQuery(coll, userId) ==
  {i \in DOMAIN coll : userId.hex \in Likers(coll[i].likedBy)}

\* .limit(limitNum) as the driver sends it: a negative limit asks for one batch
\* of that many documents.
AppliedLimit(limitNum) == IF limitNum < 0 THEN 0 - limitNum ELSE limitNum

\* GET /users/me/likes up to its first await: authenticateToken, then
\* Thought.find({ likedBy: userId }).sort(sortObj).skip(skip).limit(limitNum).
\* The store rejects a negative skip: the catch block answers 500. likesResp
\* is the answer to the latest request, with the skip and the limit its query
\* was given.
LikesFind(c, page, limit) ==
  /\ likesReq.op = "idle"
  /\ Accept
  /\ UNCHANGED <<authVars, rateVars, listReq, listResp, memVars, router, thoughts,
                 nextId, req, resp, lastLike>>
  /\ LET p == calculatePagination(page, limit)
     IN IF ~Authenticated(c) THEN
          /\ likesResp' = [NoLikesResp EXCEPT !.status = 401, !.user = c,
                                              !.page = page, !.limit = limit]
          /\ UNCHANGED likesReq
        ELSE IF p.skip < 0 THEN
          /\ likesResp' = [NoLikesResp EXCEPT !.status = 500, !.user = c,
                                              !.page = page, !.limit = limit,
                                              !.skip = p.skip,
                                              !.limitNum = p.limitNum]
          /\ UNCHANGED likesReq
        ELSE
          /\ likesReq' =
               [op |-> "likes", user |-> c, page |-> page, limit |-> limit,
                found |-> SkipLimit(
                            SortNewestFirst(LikedByQuery(thoughts, ObjectId(c))),
                            p.skip, AppliedLimit(p.limitNum)),
                snapshot |-> thoughts]
          /\ likesResp' = NoLikesResp

\* The rest of the handler: Thought.countDocuments({ likedBy: userId }), the
\* pagination metadata and the 200 answer.
LikesCount ==
  /\ likesReq.op = "likes"
  /\ UNCHANGED <<authVars, rateVars, listReq, listResp, memVars, router, thoughts,
                 nextId, req, resp, lastLike, ops>>
  /\ likesReq' = LikesIdle
  /\ LET p == calculatePagination(likesReq.page, likesReq.limit)
         totalCount ==
           Cardinality(LikedByQuery(thoughts, ObjectId(likesReq.user)))
     IN likesResp' =
          [status |-> 200, user |-> likesReq.user, page |-> likesReq.page,
           limit |-> likesReq.limit, skip |-> p.skip,
           limitNum |-> p.limitNum,
           likedThoughts |-> likesReq.found,
           pagination |->
             createPaginationMetadata(p.pageNum, totalCount, p.limitNum),
           quiet |-> likesReq.snapshot = thoughts]

\* ------------------------------------------- in-memory variant: GET /thoughts
\* String.prototype.toLowerCase on the names of the categories.
LowerCategory(c) ==
  IF c = "Food" THEN "food" ELSE IF c = "Travel" THEN "travel" ELSE c

\* filterThoughts: Array.prototype.filter builds a new array.
filterThoughts(arr, category) ==
  IF category = "" THEN arr
  ELSE SelectSeq(arr, LAMBDA t : LowerCategory(t.category) = LowerCategory(category))

\* The comparator of sortThoughts says that a comes after b.
ComesAfter(a, b, sortParam) ==
  IF StartsWithDash(sortParam)
    THEN b[SortFieldOf(sortParam)[1]] > a[SortFieldOf(sortParam)[1]]
    ELSE a[SortFieldOf(sortParam)[1]] > b[SortFieldOf(sortParam)[1]]

\* Array.prototype.sort with that comparator: a stable sort. Insert puts an
\* element after the elements of a sorted array that do not come after it.
RECURSIVE Insert(_, _, _)
Insert(sorted, x, sortParam) ==
  IF sorted = <<>> THEN <<x>>
  ELSE IF ComesAfter(sorted[Len(sorted)], x, sortParam)
    THEN Append(Insert(SubSeq(sorted, 1, Len(sorted) - 1), x, sortParam),
                sorted[Len(sorted)])
    ELSE Append(sorted, x)

RECURSIVE ArraySort(_, _)
ArraySort(arr, sortParam) ==
  IF arr = <<>> THEN <<>>
  ELSE Insert(ArraySort(SubSeq(arr, 1, Len(arr) - 1), sortParam),
              arr[Len(arr)], sortParam)

\* Array.prototype.slice(startIndex, endIndex), 0 <= startIndex <= endIndex
Slice(arr, startIndex, endIndex) ==
  [k \in 1..(IF Len(arr) < startIndex THEN 0
             ELSE IF Len(arr) < endIndex THEN Len(arr) - startIndex
             ELSE endIndex - startIndex) |-> arr[startIndex + k]]

\* paginateThoughts, on parameters that validateThoughtsQuery lets through.
paginateThoughts(arr, page, limit) ==
  IF page = <<>> /\ limit = <<>> THEN arr
  ELSE LET pageNum == ParseIntOr(page, 1)
           limitNum == ParseIntOr(limit, DefaultLimit)
       IN Slice(arr, (pageNum - 1) * limitNum, (pageNum - 1) * limitNum + limitNum)

\* The array that sortThoughts sorts is the cached one: the legacy version
\* calls thoughts.sort on its argument (the current one on the copy
\* [...thoughts]), and without a category filterThoughts has returned the
\* array it was given, which is the one getThoughts returns.
SortsInPlace(category, sort) ==
  thoughtsHelper = "legacy" /\ sort # <<>> /\ category = ""

\* router.get("/") of the in-memory variant: validateThoughtsQuery, then
\* getThoughts, filterThoughts, sortThoughts, paginateThoughts, res.json.
MemGetThoughts(page, limit, category, sort) ==
  /\ Accept
  /\ UNCHANGED <<authVars, rateVars, listReq, listResp, likesVars, thoughtsHelper,
                 router, thoughts, nextId, req, resp, lastLike>>
  /\ IF ~validateThoughtsQuery(page, limit, sort) THEN
       /\ memResp' = [NoMemResp EXCEPT !.status = 400, !.page = page,
                                       !.limit = limit, !.category = category,
                                       !.sort = sort]
       /\ UNCHANGED thoughtsData
     ELSE
       LET filtered == filterThoughts(thoughtsData, category)
           sorted == IF sort = <<>> THEN filtered
                                    ELSE ArraySort(filtered, sort)
       IN /\ thoughtsData' = IF SortsInPlace(category, sort) THEN sorted
                                                             ELSE thoughtsData
          /\ memResp' = [status |-> 200, page |-> page, limit |-> limit,
                         category |-> category, sort |-> sort,
                         thoughts |-> paginateThoughts(sorted, page, limit)]

\* ------------------------------------------------------------ auth routes
thoughtVars ==
  <<router, thoughts, nextId, req, resp, lastLike, listVars, rateVars>>

\* res.status(status).json({error, details}) of an auth route.
AuthError(op, cred, email, password, status, error, details) ==
  authResp' = [op |-> op, cred |-> cred, email |-> email,
               password |-> password, status |-> status, error |-> error,
               details |-> details, user |-> NoUser, accessToken |-> Null,
               identity |-> NoIdentity]

\* Mutant of FindByEmail: the filter names a field the documents do not have,
\* so that no document matches.
FindByNoField(email) == {}

\* User.findOne({ email }), and the lookup of the unique index on email; the
\* filter is cast with the schema's setters, as the document is.
FindByEmail(email) ==
  {u \in DOMAIN users : users[u].email = toLowerCase(email)}

\* Schema validators run by save(): password minlength 6.
UserSchemaAccepts(password) == Len(password) >= MinPasswordLength

\* The _id of a new User document.
NewUserId == CHOOSE u \in Users \ DOMAIN users :
               \A v \in Users \ DOMAIN users : u = "u1" \/ v # "u1"

FreeAuthSlot(r) ==
  /\ authReq[r].op = "idle"
  /\ \A q \in Reqs : q < r => authReq[q].op # "idle"

\* POST /auth/signup up to its first await: User.findOne and the 409 answer.
SignupLookup(r, email, password, name) ==
  /\ FreeAuthSlot(r)
  /\ Accept
  /\ UNCHANGED <<thoughtVars, users>>
  /\ IF FindByEmail(email) # {} THEN
       /\ AuthError("signup", NoToken, email, password, 409, "Conflict",
                    "User with this email already exists")
       /\ UNCHANGED authReq
     ELSE
       /\ authReq' = [authReq EXCEPT ![r] =
            [op |-> "signup", email |-> email, password |-> password,
             name |-> name]]
       /\ UNCHANGED authResp

\* The rest of signup: user.save() (validators, pre-save hash, the insert under
\* the unique index on email), generateToken, the 201 answer.
SignupSave(r) ==
  /\ authReq[r].op = "signup"
  /\ authReq' = [authReq EXCEPT ![r] = AuthIdle]
  /\ UNCHANGED <<thoughtVars, ops>>
  /\ LET email == authReq[r].email
         password == authReq[r].password
     IN IF ~UserSchemaAccepts(password) THEN
          /\ AuthError("signup", NoToken, email, password, 422,
                       "Validation failed", "password")
          /\ UNCHANGED users
        ELSE IF FindByEmail(email) # {} THEN
          \* E11000 duplicate key
          /\ AuthError("signup", NoToken, email, password, 409, "Conflict",
                       "User with this email already exists")
          /\ UNCHANGED users
        ELSE
          /\ Users \ DOMAIN users # {}
          /\ LET id == NewUserId
                 doc == UserDoc(id, email, password, authReq[r].name)
             IN /\ users' = [u \in DOMAIN users \cup {id} |->
                               IF u = id THEN doc ELSE users[u]]
                /\ authResp' = [op |-> "signup", cred |-> NoToken,
                                email |-> email, password |-> password,
                                status |-> 201, error |-> "", details |-> "",
                                user |-> toJSON(doc),
                                accessToken |-> generateToken(id),
                                identity |-> NoIdentity]

\* Mutant of UnknownEmailDetails: the answer tells that the email is unknown.
NoSuchUserDetails == "User not found"

\* The details of login's 401 answers: when no user has the email, and when the
\* password does not match.
UnknownEmailDetails == "Invalid email or password"
WrongPasswordDetails == "Invalid email or password"

\* POST /auth/login: the required fields, User.findOne, comparePassword,
\* generateToken, the 200 answer.
Login(email, password) ==
  /\ Accept
  /\ UNCHANGED <<thoughtVars, users, authReq>>
  /\ IF email = "" \/ password = <<>> THEN
       AuthError("login", NoToken, email, password, 400, "Bad Request",
                 "Email and password are required")
     ELSE IF FindByEmail(email) = {} THEN
       AuthError("login", NoToken, email, password, 401, "Unauthorized",
                 UnknownEmailDetails)
     ELSE LET user == users[CHOOSE u \in FindByEmail(email) : TRUE]
          IN IF ~comparePassword(user, password) THEN
               AuthError("login", NoToken, email, password, 401,
                         "Unauthorized", WrongPasswordDetails)
             ELSE
               authResp' = [op |-> "login", cred |-> NoToken, email |-> email,
                            password |-> password, status |-> 200,
                            error |-> "", details |-> "",
                            user |-> toJSON(user),
                            accessToken |-> generateToken(user._id),
                            identity |-> NoIdentity]

\* req.user as authenticateToken attaches it.
ReqUser(c) ==
  [userId |-> ObjectId(users[c]._id), email |-> users[c].email,
   name |-> users[c].name]

\* GET /auth/me: authenticateToken, then getProfile: User.findById and the
\* answer.
Me(c) ==
  /\ Accept
  /\ UNCHANGED <<thoughtVars, users, authReq>>
  /\ IF ~Authenticated(c) THEN
       AuthError("me", c, "", <<>>, 401, "Unauthorized", authenticateToken(c))
     ELSE IF ReqUser(c).userId.hex \notin DOMAIN users THEN
       \* no route removes a user between the two reads
       AuthError("me", c, "", <<>>, 404, "Not Found", "User not found")
     ELSE
       authResp' = [op |-> "me", cred |-> c, email |-> "", password |-> <<>>,
                    status |-> 200, error |-> "", details |-> "",
                    user |-> toJSON(users[ReqUser(c).userId.hex]),
                    accessToken |-> Null, identity |-> ReqUser(c)]

\* GET /auth/me up to the await of authenticateToken (User.findById): its 401
\* answer, or req.user attached and getProfile called.
MeAuthenticate(r, c) ==
  /\ FreeAuthSlot(r)
  /\ Accept
  /\ UNCHANGED <<thoughtVars, users>>
  /\ IF ~Authenticated(c) THEN
       /\ AuthError("me", c, "", <<>>, 401, "Unauthorized",
                    authenticateToken(c))
       /\ UNCHANGED authReq
     ELSE
       /\ authReq' = [authReq EXCEPT ![r] =
            [op |-> "me", cred |-> c, identity |-> ReqUser(c)]]
       /\ UNCHANGED authResp

\* Mutant of ProfileMissingError: the error of the catch block.
ProfileFailedError == "Internal Server Error"

\* The error of getProfile's answer when findById finds no user.
ProfileMissingError == "Not Found"

\* getProfile: User.findById(req.user.userId), the 404 answer or the user.
getProfile(r) ==
  /\ authReq[r].op = "me"
  /\ authReq' = [authReq EXCEPT ![r] = AuthIdle]
  /\ UNCHANGED <<thoughtVars, users, ops>>
  /\ LET c == authReq[r].cred
         userId == authReq[r].identity.userId
     IN IF userId.hex \notin DOMAIN users THEN
          AuthError("me", c, "", <<>>, 404, ProfileMissingError,
                    "User not found")
        ELSE
          authResp' = [op |-> "me", cred |-> c, email |-> "", password |-> <<>>,
                       status |-> 200, error |-> "", details |-> "",
                       user |-> toJSON(users[userId.hex]),
                       accessToken |-> Null, identity |-> authReq[r].identity]

\* A user record is deleted out-of-band (no route of the API removes users).
RemoveUser(u) ==
  /\ u \in DOMAIN users
  /\ users' = [v \in DOMAIN users \ {u} |-> users[v]]
  /\ UNCHANGED <<thoughtVars, authReq, authResp, ops>>

\* Registered users who log in and ask for their profile while user records are
\* deleted out-of-band.
NextRemoval ==
  \/ \E e \in Emails, p \in Passwords : Login(e, p)
  \/ \E r \in Reqs, c \in Credentials : MeAuthenticate(r, c)
  \/ \E r \in Reqs : getProfile(r)
  \/ \E u \in Users : RemoveUser(u)

SpecRemoval == Init /\ [][NextRemoval]_vars

\* The auth routes over a store without users: clients sign up, log in and ask
\* for their profile with any credential.
InitUsers ==
  /\ router = "current"
  /\ thoughts = <<>>
  /\ nextId = 0
  /\ req = [r \in Reqs |-> Idle]
  /\ resp = NoResp
  /\ ops = 0
  /\ lastLike = NoLike
  /\ users = <<>>
  /\ authReq = [r \in Reqs |-> AuthIdle]
  /\ authResp = NoAuthResp
  /\ listReq = ListIdle
  /\ listResp = NoListResp
  /\ likesReq = LikesIdle
  /\ likesResp = NoLikesResp
  /\ thoughtsHelper = "current"
  /\ thoughtsData = Dataset
  /\ memResp = NoMemResp
  /\ hits = [ip \in Ips |-> 0]
  /\ passed = [ip \in Ips |-> 0]

NextUsers ==
  \/ \E r \in Reqs, e \in Emails, p \in Passwords, n \in Names :
       SignupLookup(r, e, p, n)
  \/ \E r \in Reqs : SignupSave(r)
  \/ \E e \in Emails \cup {""}, p \in Passwords : Login(e, p)
  \/ \E c \in Credentials : Me(c)

SpecUsers == InitUsers /\ [][NextUsers]_vars

\* Clients that sign up at the same time with emails that differ in case only.
SignupEmails == {"a@x.io", "A@x.io"}

NextSignup ==
  \/ \E r \in Reqs, e \in SignupEmails, p \in Passwords, n \in Names :
       SignupLookup(r, e, p, n)
  \/ \E r \in Reqs : SignupSave(r)

SpecSignup == InitUsers /\ [][NextSignup]_vars

\* One user who posts and edits thoughts with messages at the bounds.
NextMessages ==
  \/ \E a \in {"true", Undefined}, m \in BoundaryMessages("a"),
        g \in Categories :
       CreateThought("u1", a, m, g)
  \/ \E r \in Reqs, id \in ThoughtIds, m \in BoundaryMessages("b") :
       PutLookup(r, "u1", id, m)
  \/ \E r \in Reqs : PutUpdate(r)

SpecMessages == Init /\ [][NextMessages]_vars

\* Clients that list a store of up to MaxThoughts thoughts, page by page, while
\* its owner posts and deletes. Every other thought of the store has one like.
StoreOf(n) ==
  [i \in 1..n |->
     [message |-> Trim(Msg(0, MinMessageLength, "a", 0)),
      category |-> "General", owner |-> "u1",
      hearts |-> i % 2,
      likedBy |-> IF i % 2 = 1 THEN <<"u2">> ELSE <<>>]]

Pages == {<<>>, <<"1">>, <<"2">>, <<"3">>, <<"0">>, <<"2", "x">>}
Limits == {<<>>, <<"1">>, <<"2">>, <<"1", "0", "1">>, <<"-", "5">>}
MinHeartsInputs == {<<>>, <<"1">>}

InitList ==
  /\ router \in Routers
  /\ \E n \in 0..MaxThoughts : thoughts = StoreOf(n) /\ nextId = n
  /\ req = [r \in Reqs |-> Idle]
  /\ resp = NoResp
  /\ ops = 0
  /\ lastLike = NoLike
  /\ users = RegisteredUsers
  /\ authReq = [r \in Reqs |-> AuthIdle]
  /\ authResp = NoAuthResp
  /\ listReq = ListIdle
  /\ listResp = NoListResp
  /\ likesReq = LikesIdle
  /\ likesResp = NoLikesResp
  /\ thoughtsHelper = "current"
  /\ thoughtsData = Dataset
  /\ memResp = NoMemResp
  /\ hits = [ip \in Ips |-> 0]
  /\ passed = [ip \in Ips |-> 0]

NextList ==
  \/ \E pg \in Pages, l \in Limits, h \in MinHeartsInputs :
       ListFind(pg, l, h, <<>>)
  \/ ListCount
  \/ \E m \in {Msg(0, MinMessageLength, "a", 0)}, g \in Categories :
       nextId <= MaxThoughts /\ CreateThought("u1", Undefined, m, g)
  \/ \E id \in ThoughtIds : DeleteLookup(1, "u1", id)
  \/ DeleteApply(1)

SpecList == InitList /\ [][NextList]_vars

\* Clients that list a store of up to MaxThoughts thoughts in every order they
\* can ask for; nothing is written meanwhile.
SortInputs ==
  {<<>>} \cup
  {<<f>> : f \in AllowedSortFields \cup ValidSortFields \cup {"likes"}} \cup
  {<<"-", f>> : f \in AllowedSortFields \cup ValidSortFields \cup {"likes"}} \cup
  {<<"-", "-", "hearts">>}

NextSort ==
  \/ \E l \in {<<>>, <<"2">>}, st \in SortInputs : ListFind(<<>>, l, <<>>, st)
  \/ ListCount

SpecSort == InitList /\ [][NextSort]_vars

\* Clients at two addresses who post more thoughts in a window than the limiter
\* allows: the behaviour has room for PostsInWindow requests.
PostsInWindow == 7

InitRate ==
  /\ router \in Routers
  /\ thoughts = <<>>
  /\ nextId = 0
  /\ req = [r \in Reqs |-> Idle]
  /\ resp = NoResp
  /\ ops = MaxOps - PostsInWindow
  /\ lastLike = NoLike
  /\ users = RegisteredUsers
  /\ authReq = [r \in Reqs |-> AuthIdle]
  /\ authResp = NoAuthResp
  /\ listReq = ListIdle
  /\ listResp = NoListResp
  /\ likesReq = LikesIdle
  /\ likesResp = NoLikesResp
  /\ thoughtsHelper = "current"
  /\ thoughtsData = Dataset
  /\ memResp = NoMemResp
  /\ hits = [ip \in Ips |-> 0]
  /\ passed = [ip \in Ips |-> 0]

NextRate ==
  \/ \E ip \in Ips, c \in {"u1", NoToken}, m \in CreateMessages,
        g \in Categories :
       PostThoughtCounted(ip, c, Undefined, m, g)
  \/ WindowReset

SpecRate == InitRate /\ [][NextRate]_vars

\* Clients of the in-memory variant, who list the cached dataset.
MemSorts ==
  {<<>>} \cup {<<f>> : f \in ValidSortFields \cup {"category"}}
         \cup {<<"-", f>> : f \in ValidSortFields}

NextMem ==
  \E pg \in {<<>>, <<"2">>}, l \in {<<>>, <<"2">>},
     g \in {"", "food", "Travel"}, st \in MemSorts :
    MemGetThoughts(pg, l, g, st)

InitMem ==
  /\ router = "current"
  /\ thoughts = <<>>
  /\ nextId = 0
  /\ req = [r \in Reqs |-> Idle]
  /\ resp = NoResp
  /\ ops = 0
  /\ lastLike = NoLike
  /\ users = <<>>
  /\ authReq = [r \in Reqs |-> AuthIdle]
  /\ authResp = NoAuthResp
  /\ listReq = ListIdle
  /\ listResp = NoListResp
  /\ likesReq = LikesIdle
  /\ likesResp = NoLikesResp
  /\ thoughtsHelper \in Helpers
  /\ thoughtsData = Dataset
  /\ memResp = NoMemResp
  /\ hits = [ip \in Ips |-> 0]
  /\ passed = [ip \in Ips |-> 0]

SpecMem == InitMem /\ [][NextMem]_vars

\* Users who like and unlike the thoughts that u1 posts and deletes, and who
\* list the thoughts they like.
LikesPages == {<<>>, <<"2">>, <<"-", "1">>}
LikesLimits == {<<>>, <<"1">>, <<"1", "0", "1">>, <<"-", "5">>}

NextLikes ==
  \/ \E m \in {Msg(0, MinMessageLength, "a", 0)}, g \in Categories :
       nextId < 2 /\ CreateThought("u1", Undefined, m, g)
  \/ \E r \in Reqs, c \in Users, id \in ThoughtIds : LikeLookup(r, c, id)
  \/ \E r \in Reqs : LikeUpdate(r)
  \/ \E r \in Reqs, id \in ThoughtIds : DeleteLookup(r, "u1", id)
  \/ \E r \in Reqs : DeleteApply(r)
  \/ \E c \in Callers, pg \in LikesPages, l \in LikesLimits :
       LikesFind(c, pg, l)
  \/ LikesCount

SpecLikes == Init /\ [][NextLikes]_vars

\* The whole API over a store without users: one client signs up, logs in and
\* then posts, reads, likes, edits and deletes, with or without its token.
OneEmail == "a@x.io"
OnePassword == Letters(6, "p")
OneCaller == {"u1", NoToken}

NextAll ==
  \/ \E r \in Reqs, n \in Names : SignupLookup(r, OneEmail, OnePassword, n)
  \/ \E r \in Reqs : SignupSave(r)
  \/ \E p \in Passwords : Login(OneEmail, p)
  \/ \E c \in OneCaller : Me(c)
  \/ \E c \in OneCaller, a \in AnonymousFlags, m \in CreateMessages,
        g \in Categories :
       nextId = 0 /\ CreateThought(c, a, m, g)
  \/ \E c \in OneCaller, id \in IdInputs : GetThought(c, id)
  \/ \E r \in Reqs, c \in OneCaller, id \in IdInputs, m \in PutMessages :
       PutLookup(r, c, id, m)
  \/ \E r \in Reqs : PutUpdate(r)
  \/ \E r \in Reqs, c \in OneCaller, id \in IdInputs : DeleteLookup(r, c, id)
  \/ \E r \in Reqs : DeleteApply(r)
  \/ \E r \in Reqs, c \in OneCaller, id \in IdInputs : LikeLookup(r, c, id)
  \/ \E r \in Reqs : LikeUpdate(r)

SpecAll == InitUsers /\ [][NextAll]_vars

\* ----------------------------------------------------------- properties
\* The step in which slot r's like-toggle applies its update to a stored thought.
LikeApplied(r) ==
  /\ req[r].op = "like"
  /\ req'[r].op = "idle"
  /\ Stored(req[r].id)

HeartsMatchLikedBy ==
  \A id \in DOMAIN thoughts : thoughts[id].hearts = Len(thoughts[id].likedBy)

\* C1: under like-toggles executed one after another, every stored thought's
\* hearts equals the number of user ids in its likedBy.
C1_SequentialHeartsEqualLikedBy == HeartsMatchLikedBy

\* Two users liked a thought and one of them has taken the like back.
C1_Witness ==
  \E id \in DOMAIN thoughts :
    /\ lastLike.id = id
    /\ lastLike.likers = Users
    /\ thoughts[id].hearts = 1

\* C2: when each user has at most one like-toggle in flight, hearts equals
\* |likedBy| whatever the interleaving, and each toggle leaves its user's
\* membership flipped relative to what the request read at its start.
C2_DistinctUsersNoLostUpdate ==
  /\ [] HeartsMatchLikedBy
  /\ [][\A r \in Reqs :
          LikeApplied(r) =>
            ((req[r].user \in Likers(thoughts'[req[r].id].likedBy))
               = ~req[r].hasLiked)]_vars

\* One user's like has been applied while another user's like-toggle on the
\* same thought, started before, is still suspended.
C2_Witness ==
  /\ ops = 3
  /\ nextId = 1
  /\ Stored(1)
  /\ req[1].op = "idle"
  /\ req[2].op = "like" /\ req[2].id = 1 /\ ~req[2].hasLiked
  /\ thoughts[1].hearts = 1
  /\ Likers(thoughts[1].likedBy) = Users \ {req[2].user}

\* C3 (as claimed): when one user alone sends like-toggles, several at once,
\* then once none is in flight hearts is at most 1 and likedBy holds at most one
\* id.
C3_SameUserCountsOnce ==
  \A id \in DOMAIN thoughts :
    (\A q \in Reqs : ~LikeInFlight(q)) =>
      (thoughts[id].hearts <= 1 /\ Len(thoughts[id].likedBy) <= 1)

\* C4: a like-toggle that follows immediately the like-toggle of the same user
\* on the same thought restores the likers and the hearts that the thought had
\* before the first of the two.
C4_DoubleToggleRestores ==
  [][\A r \in Reqs :
       (LikeApplied(r) /\ lastLike.id = req[r].id /\ lastLike.user = req[r].user)
         => /\ Likers(thoughts'[req[r].id].likedBy) = lastLike.likers
            /\ thoughts'[req[r].id].hearts = lastLike.hearts]_vars

\* The same user has toggled the same thought twice in a row.
C4_Witness == lastLike.twice /\ Stored(lastLike.id)

C6_LikedByHasNoDuplicates ==
  \A id \in DOMAIN thoughts :
    Cardinality(Likers(thoughts[id].likedBy)) = Len(thoughts[id].likedBy)

\* Two like requests of one user overlapped and both were applied.
C6_Witness ==
  \E id \in DOMAIN thoughts :
    thoughts[id].hearts = 2 /\ Len(thoughts[id].likedBy) = 1

\* C7 (as claimed): the stored hearts of every thought is non-negative.
C7_HeartsNonNegative ==
  \A id \in DOMAIN thoughts : thoughts[id].hearts >= 0

\* A step in which a response is sent: a request answered on arrival (the
\* request is counted, no handler suspends) or a suspended handler finishing.
Answered == (ops' # ops) # (req' # req)

\* The response sent in this step answers a PUT or DELETE of a registered user
\* on a thought stored when the step is taken.
AnswersWrite ==
  /\ Answered
  /\ resp'.op \in {"put", "delete"}
  /\ resp'.user \in Users
  /\ Stored(resp'.id)

\* C8 (as claimed): a PUT or DELETE on a stored thought owned by another user
\* is answered 403 and leaves the store unchanged.
C8_NonOwnerForbidden ==
  [][(AnswersWrite /\ thoughts[resp'.id].owner \in Users \ {resp'.user})
       => (resp'.status = 403 /\ thoughts' = thoughts)]_vars

\* C8 (amended): a DELETE, or a PUT that carries a non-blank message, on a
\* stored thought owned by another user is answered 403 and leaves the store
\* unchanged; a PUT without a message is answered 400 and leaves the store
\* unchanged too.
C8_NonOwnerForbiddenOrBadRequest ==
  [][(AnswersWrite /\ thoughts[resp'.id].owner \in Users \ {resp'.user})
       => /\ thoughts' = thoughts
          /\ resp'.status =
               IF resp'.op = "put" /\ MessageMissing(resp'.message)
                 THEN 400 ELSE 403]_vars

\* A user's PUT with a message on another user's thought has been answered 403.
C8_Witness ==
  /\ resp.op = "put"
  /\ resp.status = 403
  /\ ~MessageMissing(resp.message)
  /\ Stored(resp.id)
  /\ thoughts[resp.id].owner \in Users \ {resp.user}

\* C9 (as claimed, for requests that carry what they need): a DELETE, or a PUT
\* with a non-blank message, on a stored anonymous thought is answered 403 and
\* leaves the store unchanged.
C9_AnonymousForbidden ==
  [][(/\ AnswersWrite
      /\ thoughts[resp'.id].owner = Null
      /\ ~(resp'.op = "put" /\ MessageMissing(resp'.message)))
       => (resp'.status = 403 /\ thoughts' = thoughts)]_vars

\* C10 (as claimed): a PUT by the owner of a stored thought, with a valid
\* message, is answered 200 and the stored message becomes the trimmed message.
C10_OwnerCanEdit ==
  [][(/\ Answered
      /\ resp'.op = "put"
      /\ Stored(resp'.id)
      /\ thoughts[resp'.id].owner = resp'.user
      /\ thoughtValidation(resp'.message))
       => /\ resp'.status = 200
          /\ resp'.id \in DOMAIN thoughts'
          /\ thoughts'[resp'.id].message = Trim(resp'.message)]_vars

\* The step in which slot r's PUT applies its update to a stored thought.
PutApplied(r) ==
  /\ req[r].op = "put"
  /\ req'[r].op = "idle"
  /\ Stored(req[r].id)

\* C11: a successful edit changes nothing of the thought but its message:
\* hearts, likedBy, owner and category are the same after the edit as before,
\* whatever likes preceded or overlap it; no other thought changes either.
C11_EditChangesOnlyMessage ==
  [][\A r \in Reqs :
       PutApplied(r) =>
         /\ resp'.status = 200
         /\ DOMAIN thoughts' = DOMAIN thoughts
         /\ \A id \in DOMAIN thoughts :
              /\ thoughts'[id].hearts = thoughts[id].hearts
              /\ thoughts'[id].likedBy = thoughts[id].likedBy
              /\ thoughts'[id].owner = thoughts[id].owner
              /\ thoughts'[id].category = thoughts[id].category
              /\ id # req[r].id => thoughts'[id] = thoughts[id]]_vars

\* The owner's edit of a liked thought has been answered 200 and stored.
C11_Witness ==
  /\ resp.op = "put" /\ resp.status = 200 /\ resp.body = "thought"
  /\ Stored(resp.id)
  /\ thoughts[resp.id].hearts = 1
  /\ thoughts[resp.id].likedBy # <<>>
  /\ thoughts[resp.id].message = Trim(resp.message)
  /\ thoughts[resp.id].message \notin {Trim(m) : m \in CreateMessages}

\* The step in which slot r's DELETE removes the thought and answers.
DeleteApplied(r) == req[r].op = "delete" /\ req'[r].op = "idle"

\* The id was assigned to a thought and the thought has been deleted (only a
\* DELETE that passed the ownership check, answered 200, removes a thought).
Deleted(id) == id \in 1..nextId /\ ~Stored(id)

\* The delete removes its thought and nothing else, and is answered 200.
DeleteRemovesOnlyItsThought ==
  \A r \in Reqs :
    DeleteApplied(r) =>
      /\ resp'.status = 200
      /\ DOMAIN thoughts' = DOMAIN thoughts \ {req[r].id}
      /\ \A i \in DOMAIN thoughts' : thoughts'[i] = thoughts[i]

\* The response of this step answers, on its arrival, a request on a deleted id.
LaterRequestOnDeleted ==
  /\ ops' # ops
  /\ req' = req
  /\ resp'.op \in {"get", "put", "delete", "like"}
  /\ Deleted(resp'.id)

\* No request that arrives on a deleted id finds a thought: none suspends.
NoHandlerStartsOnDeleted ==
  \A r \in Reqs :
    (req[r].op = "idle" /\ req'[r].op # "idle") => ~Deleted(req'[r].id)

\* C12 (as claimed): the owner's DELETE answered 200 removes its thought and no
\* other; the id stays unassigned, and every GET, PUT, DELETE or like-toggle
\* that arrives on it afterwards is answered 404.
C12_DeletedStaysGone ==
  [][/\ DeleteRemovesOnlyItsThought
     /\ NoHandlerStartsOnDeleted
     /\ (nextId' >= nextId /\ \A id \in ThoughtIds : Deleted(id) => ~Stored(id)')
     /\ LaterRequestOnDeleted => resp'.status = 404]_vars

\* C12 (amended): as C12, where the later request is answered 401 when it needs
\* a token and carries none, 400 when it is a PUT without a message, and 404
\* otherwise.
C12_DeletedStaysGoneForValidRequests ==
  [][/\ DeleteRemovesOnlyItsThought
     /\ NoHandlerStartsOnDeleted
     /\ (nextId' >= nextId /\ \A id \in ThoughtIds : Deleted(id) => ~Stored(id)')
     /\ LaterRequestOnDeleted =>
          /\ thoughts' = thoughts
          /\ resp'.status =
               IF resp'.op # "get" /\ resp'.user = NoToken THEN 401
               ELSE IF resp'.op = "put" /\ MessageMissing(resp'.message) THEN 400
               ELSE 404]_vars

\* Of two thoughts one was deleted by its owner, the other is still stored, and
\* the owner's later like-toggle on the deleted id has been answered 404.
C12_Witness ==
  /\ nextId = 2
  /\ Cardinality(DOMAIN thoughts) = 1
  /\ resp.op = "like" /\ resp.user \in Users /\ resp.status = 404
  /\ Deleted(resp.id)

\* The response of this step answers a POST /thoughts.
AnswersCreate == ops' # ops /\ req' = req /\ resp'.op = "create"

\* The thoughts of the store are what they were, but for a new one with id i.
OnlyAdded(i) ==
  /\ DOMAIN thoughts' = DOMAIN thoughts \cup {i}
  /\ i \notin DOMAIN thoughts
  /\ \A j \in DOMAIN thoughts : thoughts'[j] = thoughts[j]

C13_WitnessUnauthorized ==
  /\ resp.op = "create" /\ resp.status = 401
  /\ resp.allowAnonymous = "1" /\ resp.user = NoToken
  /\ thoughtValidation(resp.message)

\* The response of this step answers a PUT, DELETE or like-toggle.
AnswersGuarded ==
  Answered /\ resp'.op \in {"put", "delete", "like"}

\* C14: a PUT, DELETE or like-toggle that carries no token, or a token that is
\* not a valid token of a stored user, is answered 401 on arrival and changes
\* no thought, whatever its id; no handler ever runs for such a request.
C14_UnauthenticatedRejectedFirst ==
  [][/\ (AnswersGuarded /\ resp'.user \notin Users) =>
          /\ resp'.status = 401
          /\ ops' # ops
          /\ thoughts' = thoughts
     /\ \A r \in Reqs : req'[r].op # "idle" => req'[r].user \in Users]_vars

\* A like-toggle with a forged token on a stored thought has been answered 401.
C14_Witness ==
  /\ resp.op = "like" /\ resp.user = Forged /\ resp.status = 401
  /\ Stored(resp.id)

\* A DELETE without token and with a malformed id has been answered 401.
C14_WitnessMalformedId ==
  /\ nextId = 1
  /\ resp.op = "delete" /\ resp.user = NoToken /\ resp.status = 401
  /\ resp.id = 0

\* The response of this step answers, on its arrival, a request to the auth
\* route op.
AnswersAuth(op) == ops' # ops /\ authReq' = authReq /\ authResp'.op = op

\* C15: authenticateToken lets a request through to its handler only with the
\* identity (user id, email, name) of the stored user its valid token names
\* attached; otherwise it answers 401, with details 'Access token is required'
\* without a Bearer token, 'Invalid access token' for a bad signature, 'Access
\* token has expired' for an expired token and 'User not found' when the user
\* the token names is not stored.
C15_AuthMiddlewareAnswers ==
  [][AnswersAuth("me") =>
       LET c == authResp'.cred
           Unauthorized(details) ==
             /\ authResp'.status = 401
             /\ authResp'.error = "Unauthorized"
             /\ authResp'.details = details
             /\ authResp'.identity = NoIdentity
             /\ authResp'.user = NoUser
       IN IF c = NoToken THEN Unauthorized("Access token is required")
          ELSE IF c = Forged THEN Unauthorized("Invalid access token")
          ELSE IF c = Expired THEN Unauthorized("Access token has expired")
          ELSE IF c \notin DOMAIN users THEN Unauthorized("User not found")
          ELSE /\ authResp'.status = 200
               /\ authResp'.identity =
                    [userId |-> ObjectId(c), email |-> users[c].email,
                     name |-> users[c].name]]_vars

\* A user who signed up has asked for the profile with the token and was let
\* through with the identity attached.
C15_Witness ==
  /\ authResp.op = "me" /\ authResp.status = 200
  /\ authResp.cred \in DOMAIN users
  /\ authResp.identity # NoIdentity
  /\ authResp.identity.email = users[authResp.cred].email

\* A well-signed token of a user who is not stored has been answered 401
\* 'User not found' while another user is stored.
C15_WitnessUserNotFound ==
  /\ authResp.op = "me" /\ authResp.status = 401
  /\ authResp.details = "User not found"
  /\ users # <<>>

\* A stored user has the email.
Registered(email) == \E u \in DOMAIN users : users[u].email = email

Observable(r) ==
  [status |-> r.status, error |-> r.error, details |-> r.details,
   user |-> r.user, accessToken |-> r.accessToken]

\* The login answered in this step names an email no user has, or the email of
\* a stored user with a password that is not that user's.
FailedLogin ==
  /\ AnswersAuth("login")
  /\ authResp'.email # ""
  /\ \/ ~Registered(authResp'.email)
     \/ \E u \in DOMAIN users :
          /\ users[u].email = authResp'.email
          /\ users[u].password # Hash(authResp'.password)

C18_NoPasswordInResponses ==
  /\ "password" \notin DOMAIN authResp.user
  /\ authResp.accessToken \in Users \cup {Null}
  /\ DOMAIN resp.owner \subseteq {"_id", "name", "email"}
  /\ authResp.status \in {200, 201} =>
       DOMAIN authResp.user = {"_id", "email", "name"}

\* The client has got its user object from an auth route and a thought with
\* its populated owner from a thoughts route.
C18_Witness ==
  /\ authResp.status \in {200, 201}
  /\ authResp.user.email = OneEmail
  /\ resp.body = "thought"
  /\ resp.owner # NoUser
  /\ resp.owner.email = OneEmail

\* The response of this step answers a POST /thoughts or a PUT /thoughts/:id
\* that was not stopped for its token, its id or its ownership, nor by a
\* server error.
AnswersMessage ==
  /\ Answered
  /\ resp'.op \in {"create", "put"}
  /\ resp'.status \notin {400, 401, 403, 404, 500}

\* C19 (as claimed): the message of every stored thought has between 5 and 140
\* characters; POST /thoughts and PUT /thoughts/:id answer 422 to a message
\* that has fewer than 5 or more than 140 characters after trimming, and leave
\* the store unchanged.
C19_MessageLengthBounded ==
  /\ [](\A id \in DOMAIN thoughts :
          /\ Len(thoughts[id].message) >= MinMessageLength
          /\ Len(thoughts[id].message) <= MaxMessageLength)
  /\ [][(AnswersMessage /\ ~thoughtValidation(resp'.message))
          => (resp'.status = 422 /\ thoughts' = thoughts)]_vars

\* The least k with k * l >= n.
CeilDiv(n, l) == CHOOSE k \in 0..n : k * l >= n /\ \A j \in 0..n : j * l >= n => k <= j

\* C20: an accepted GET /thoughts with page p and page size l (1 and 20 when
\* absent), over a store that no write changes while the request is served and
\* that holds n matching thoughts, is answered with currentPage = p,
\* totalCount = n, totalPages = ceil(n / l), hasNextPage iff p < ceil(n / l),
\* hasPrevPage iff p > 1, and min(l, max(0, n - (p - 1) * l)) thoughts.
C20_PaginationMetadata ==
  (listResp.status = 200 /\ listResp.quiet) =>
    LET pg == IF listResp.page = <<>> THEN 1 ELSE parseInt(listResp.page).value
        l == IF listResp.limit = <<>> THEN DefaultLimit
                                      ELSE parseInt(listResp.limit).value
        n == listResp.matching
        rest == IF n - (pg - 1) * l < 0 THEN 0 ELSE n - (pg - 1) * l
    IN /\ listResp.pagination.currentPage = pg
       /\ listResp.pagination.totalCount = n
       /\ listResp.pagination.totalPages = CeilDiv(n, l)
       /\ listResp.pagination.hasNextPage = (pg < CeilDiv(n, l))
       /\ listResp.pagination.hasPrevPage = (pg > 1)
       /\ Len(listResp.thoughts) = IF l < rest THEN l ELSE rest

\* The second page of size 2 of a store of three thoughts has been returned:
\* one thought, no next page, a previous page.
C20_Witness ==
  /\ listResp.status = 200 /\ listResp.quiet
  /\ listResp.page = <<"2">> /\ listResp.limit = <<"2">>
  /\ listResp.matching = 3
  /\ Len(listResp.thoughts) = 1
  /\ listResp.pagination.totalPages = 2
  /\ ~listResp.pagination.hasNextPage

\* A page past the last one has been returned: no thought, no next page.
C20_WitnessPastEnd ==
  /\ listResp.status = 200 /\ listResp.quiet
  /\ listResp.page = <<"3">> /\ listResp.limit = <<"1">>
  /\ listResp.matching = 2
  /\ listResp.thoughts = <<>>

\* A page or limit parameter that is a number outside its range.
PageBelowOne(page) == ~parseInt(page).isNaN /\ parseInt(page).value < 1
LimitBelowOne(limit) == ~parseInt(limit).isNaN /\ parseInt(limit).value < 1
LimitAboveMax(limit) == ~parseInt(limit).isNaN /\ parseInt(limit).value > MaxLimit

\* C21: a GET /thoughts whose page is below 1 or whose limit is below 1 or
\* above 100 is answered 200: with currentPage 1 when the page was below 1, and
\* with at most 100 thoughts (at most the default 20 when the limit was below 1).
C21_OutOfRangeClamped ==
  (/\ listResp.status # 0
   /\ \/ PageBelowOne(listResp.page)
      \/ LimitBelowOne(listResp.limit)
      \/ LimitAboveMax(listResp.limit)) =>
    /\ listResp.status = 200
    /\ PageBelowOne(listResp.page) => listResp.pagination.currentPage = 1
    /\ Len(listResp.thoughts) <= MaxLimit
    /\ LimitBelowOne(listResp.limit) => Len(listResp.thoughts) <= DefaultLimit

\* C22: whatever page and limit a GET /users/me/likes carries, the page size
\* its query is given is in 1..100 and the number of records it skips is not
\* negative.
C22_LikesQueryBounded ==
  likesResp.status \in {200, 500} =>
    /\ likesResp.limitNum >= 1
    /\ likesResp.limitNum <= MaxLimit
    /\ likesResp.skip >= 0

\* The thoughts of a GET /thoughts answer are in the order of a sort object
\* (the store does not change under SpecSort).
Ordered(ids, field, direction) ==
  \A a, b \in 1..Len(ids) :
    a < b => direction * SortKey(thoughts, ids[a], field)
               <= direction * SortKey(thoughts, ids[b], field)

\* The thoughts are the newest ones of the store, newest first.
DefaultOrder(ids) == \A a, b \in 1..Len(ids) : a < b => ids[a] > ids[b]

\* Fields the list can be sorted by.
Sortable == {"hearts", "createdAt", "updatedAt", "category"}

\* C23 (as claimed): a GET /thoughts whose sort field is not a sortable field is
\* answered 200 with the thoughts newest first, never with an error.
C23_UnknownSortFallsBack ==
  (/\ listResp.status # 0
   /\ listResp.sort # <<>>
   /\ ~Includes(Sortable, SortFieldOf(listResp.sort))) =>
    listResp.status = 200 /\ DefaultOrder(listResp.thoughts)

\* C23 (amended): a sort field that is not sortable is answered 200 with the
\* thoughts newest first when it is one validateThoughtsQuery lists (_id,
\* message), and 400 when it is not.
C23_UnknownSortFallsBackIfValid ==
  (/\ listResp.status # 0
   /\ listResp.sort # <<>>
   /\ ~Includes(Sortable, SortFieldOf(listResp.sort))) =>
    IF Includes({"_id", "message"}, SortFieldOf(listResp.sort))
      THEN listResp.status = 200 /\ DefaultOrder(listResp.thoughts)
      ELSE listResp.status = 400 /\ listResp.thoughts = <<>>

\* sort=-message over three thoughts has been answered with all of them.
C23_Witness ==
  /\ listResp.status = 200
  /\ listResp.sort = <<"-", "message">>
  /\ listResp.thoughts = <<3, 2, 1>>

\* sort=likes has been answered 400.
C23_WitnessRejected ==
  /\ listResp.status = 400
  /\ listResp.sort = <<"likes">>

\* C24: for each sortable field f, GET /thoughts?sort=f is answered 200 with
\* the thoughts in ascending order of f and sort=-f in descending order of f;
\* without a sort parameter the thoughts come newest first.
C24_SortOrders ==
  listResp.status # 0 =>
    /\ listResp.sort = <<>> =>
         listResp.status = 200 /\ DefaultOrder(listResp.thoughts)
    /\ \A f \in Sortable :
         /\ listResp.sort = <<f>> =>
              listResp.status = 200 /\ Ordered(listResp.thoughts, f, 1)
         /\ listResp.sort = <<"-", f>> =>
              listResp.status = 200 /\ Ordered(listResp.thoughts, f, 0 - 1)

\* A GET /auth/me is answered on its arrival by authenticateToken, or later by
\* getProfile in handler slot r.
MeAnsweredOnArrival ==
  ops' = ops + 1 /\ authReq' = authReq /\ authResp'.op = "me"
MeAnsweredByProfile(r) == authReq[r].op = "me" /\ authReq'[r].op = "idle"

\* The token a credential carries is valid and unexpired, and names a user
\* whose record is not stored any more.
TokenOfRemovedUser(c) == c \in Users /\ jwtVerify(c) = "ok" /\ c \notin DOMAIN users

\* C25 (as claimed): a GET /auth/me with a valid, unexpired token whose user
\* record has been removed is answered 404 Not Found.
C25_RemovedUserNotFound ==
  [][/\ (MeAnsweredOnArrival /\ TokenOfRemovedUser(authResp'.cred)) =>
          authResp'.status = 404
     /\ \A r \in Reqs :
          (MeAnsweredByProfile(r) /\ TokenOfRemovedUser(authReq[r].cred)) =>
            authResp'.status = 404]_vars

\* C25 (amended): when the record is gone as the request arrives, the answer
\* is the 401 'User not found' of authenticateToken; it is 404 Not Found when
\* the record is removed between the lookup of authenticateToken and the
\* lookup of getProfile.
C25_RemovedUserUnauthorizedOrNotFound ==
  [][/\ (MeAnsweredOnArrival /\ TokenOfRemovedUser(authResp'.cred)) =>
          /\ authResp'.status = 401
          /\ authResp'.details = "User not found"
     /\ \A r \in Reqs :
          (MeAnsweredByProfile(r) /\ TokenOfRemovedUser(authReq[r].cred)) =>
            /\ authResp'.status = 404
            /\ authResp'.error = "Not Found"]_vars

\* u1's record is gone and u1's token has been answered 401 'User not found'.
C25_Witness ==
  /\ authResp.op = "me" /\ authResp.cred = "u1"
  /\ "u1" \notin DOMAIN users
  /\ authResp.status = 401 /\ authResp.details = "User not found"

\* u1's record was removed while the request was being served: 404.
C25_WitnessRace ==
  /\ authResp.op = "me" /\ authResp.cred = "u1"
  /\ "u1" \notin DOMAIN users
  /\ authResp.status = 404

\* The set of thoughts a GET /users/me/likes answer returns.
Returned(ids) == {ids[k] : k \in 1..Len(ids)}

\* The stored thoughts a user likes.
LikedThoughts(u) == {t \in DOMAIN thoughts : u \in Likers(thoughts[t].likedBy)}

\* The step that answers a GET /users/me/likes with 200, no write having
\* landed since its find.
LikesAnswered ==
  likesReq.op = "likes" /\ likesReq'.op = "idle" /\ likesReq.snapshot = thoughts

\* The step that applies the like-toggle of handler slot r to a stored thought.
ToggleApplied(r) ==
  req[r].op = "like" /\ req'[r].op = "idle" /\ Stored(req[r].id)

\* C26: GET /users/me/likes counts exactly the stored thoughts whose likedBy
\* holds the caller and returns no other thought (all of them when they fit
\* the page); and a user is in the likedBy of a stored thought exactly when the
\* toggle of that user applied last to it was a like: a toggle sets the
\* membership of its user, and no other step changes the membership of a user
\* in a thought that stays stored.
C26_LikesListMatchesLikedBy ==
  [][/\ LikesAnswered =>
          /\ likesResp'.status = 200
          /\ likesResp'.pagination.totalCount =
               Cardinality(LikedThoughts(likesReq.user))
          /\ Returned(likesResp'.likedThoughts) \subseteq
               LikedThoughts(likesReq.user)
          /\ (likesReq.page = <<>> /\ likesReq.limit = <<>>) =>
               Returned(likesResp'.likedThoughts) = LikedThoughts(likesReq.user)
     /\ \A r \in Reqs :
          ToggleApplied(r) =>
            (req[r].user \in Likers(thoughts'[req[r].id].likedBy))
              = ~req[r].hasLiked
     /\ \A t \in DOMAIN thoughts \cap DOMAIN thoughts', u \in Users :
          (\A r \in Reqs :
             ~(ToggleApplied(r) /\ req[r].id = t /\ req[r].user = u)) =>
            (u \in Likers(thoughts'[t].likedBy))
              = (u \in Likers(thoughts[t].likedBy))]_vars

\* u2 has liked thought 1 of u1 and the list of u2's likes holds it.
C26_Witness ==
  /\ likesResp.status = 200 /\ likesResp.quiet
  /\ likesResp.user = "u2"
  /\ likesResp.likedThoughts = <<1>>
  /\ likesResp.pagination.totalCount = 1
  /\ 1 \in DOMAIN thoughts /\ thoughts[1].owner = "u1"

\* u2 has liked and unliked thought 1: the list of u2's likes is empty.
C26_WitnessUnliked ==
  /\ likesResp.status = 200 /\ likesResp.quiet
  /\ likesResp.user = "u2"
  /\ likesResp.likedThoughts = <<>>
  /\ 1 \in DOMAIN thoughts /\ thoughts[1].hearts = 0
  /\ resp.op = "like" /\ resp.user = "u2" /\ resp.status = 200

\* C27: the step that completes a like-toggle answers 200 with the updated
\* thought when the thought is stored as the update is applied, and 404 when it
\* is not (its owner's DELETE having completed since the lookup): never 200
\* with a null body.
C27_LikeOfDeletedIsNotFound ==
  [][\A r \in Reqs :
       (req[r].op = "like" /\ req'[r].op = "idle") =>
         IF Stored(req[r].id)
           THEN resp'.status = 200 /\ resp'.body = "thought"
           ELSE resp'.status = 404 /\ resp'.body # "null"]_vars

\* Two emails are the same, case apart.
SameEmail(e1, e2) == e1 = e2 \/ {e1, e2} = {"a@x.io", "A@x.io"}

\* No two stored users have the same lower-cased email.
EmailsUnique ==
  \A u, v \in DOMAIN users : SameEmail(users[u].email, users[v].email) => u = v

\* The step in which the signup of handler slot r, whose body the schema
\* accepts, is answered after its save.
SignupSaved(r) ==
  /\ authReq[r].op = "signup" /\ authReq'[r].op = "idle"
  /\ UserSchemaAccepts(authReq[r].password)

\* Some stored user has the email, case apart.
Taken(email) == \E u \in DOMAIN users : SameEmail(users[u].email, email)

\* C28: no two stored users ever have the same lower-cased email; of the
\* signups in flight with one email, the save that comes first is answered 201
\* with a token and stores the user, every later one is answered 409 and stores
\* nothing, and no signup is answered 500.
C28_ConcurrentSignupsOneWins ==
  /\ []EmailsUnique
  /\ [][\A r \in Reqs :
          SignupSaved(r) =>
            IF Taken(authReq[r].email)
              THEN /\ authResp'.status = 409
                   /\ authResp'.accessToken = Null
                   /\ users' = users
              ELSE /\ authResp'.status = 201
                   /\ authResp'.accessToken # Null
                   /\ Cardinality(DOMAIN users') = Cardinality(DOMAIN users) + 1
                   /\ \E u \in DOMAIN users' :
                        SameEmail(users'[u].email, authReq[r].email)]_vars
  /\ [](authResp.op = "signup" => authResp.status # 500)

\* Two signups with the same email, case apart, passed the lookup together: the
\* first has been answered 201 and its user is stored, the second is about to
\* save.
C28_Witness ==
  /\ authResp.op = "signup" /\ authResp.status = 201
  /\ Cardinality(DOMAIN users) = 1
  /\ \E r \in Reqs :
       /\ authReq[r].op = "signup"
       /\ authReq[r].email # authResp.email
       /\ UserSchemaAccepts(authReq[r].password)
       /\ Taken(authReq[r].email)

\* C29: no GET /thoughts of the in-memory variant changes the content or the
\* order of the cached dataset, and a GET /thoughts without parameters returns
\* the dataset as it was loaded, whatever requests came before.
C29_CacheIsReadOnly ==
  /\ [][thoughtsData' = thoughtsData]_vars
  /\ []((/\ memResp.status = 200
         /\ memResp.sort = <<>> /\ memResp.category = ""
         /\ memResp.page = <<>> /\ memResp.limit = <<>>)
          => memResp.thoughts = Dataset)

\* C30: in a window of the limiter at most 5 POST /thoughts from one client
\* address are let through to the create handler: a further one is not let
\* through, and a POST /thoughts answered 429 creates no thought.
C30_CreationsRateLimited ==
  /\ [](\A ip \in Ips : passed[ip] <= MaxCreations)
  /\ [][(resp'.op = "create" /\ resp'.status = 429 /\ ops' # ops) =>
          thoughts' = thoughts]_vars

====
